---- MODULE Spec2Model ----
(***************************************************************************)
(* Hockey HMM Tracker (src/main.py): one run of the Streamlit script is    *)
(* the pipeline                                                            *)
(*   read_csv + sort_values -> StandardScaler -> GaussianHMM.fit ->        *)
(*   predict -> label states -> coach notes -> legend / table / report.    *)
(* Every statement of the script that can raise ends the run; the stage    *)
(* that raised is kept in failedAt.                                        *)
(*                                                                         *)
(* Abstractions.  One feature column (GoalsFor) stands for the six columns *)
(* of `features`.  A GameDate is its rank among the dates of the file.     *)
(* goal_diff holds, per fitted state, the rank of                          *)
(* means[:,GoalsFor] - means[:,GoalsAgainst]: lines 65-70 only compare     *)
(* these numbers, so the K ranks 0..K-1 realise every ordering, ties       *)
(* included, of K states.  The EM fit and the Viterbi decoding are library *)
(* code: their results are any values of the right shape, the same on the  *)
(* same input (random_state=42).                                           *)
(***************************************************************************)
EXTENDS Integers, Sequences, FiniteSets

VARIABLES
    csv,              \* uploaded_file: [defect, rows]
    n_states,         \* the slider value
    pc,               \* the statement the script run is at
    failedAt,         \* stage whose statement raised, "none" while running
    df,               \* the data frame rows, in frame order
    X,                \* the standardized feature column
    fitted,           \* TRUE once model.fit returned
    goal_diff,        \* per state index 0..K-1, the score (as a rank)
    State,            \* df['State']
    order,            \* np.argsort(goal_diff)[::-1]
    state_label_map,  \* state index -> friendly name
    StateLabel,       \* df['StateLabel']
    CoachNote,        \* df['CoachNote']
    prev              \* the previous run of the session, for comparisons

vars == <<csv, n_states, pc, failedAt, df, X, fitted, goal_diff, State, order,
          state_label_map, StateLabel, CoachNote, prev>>

----------------------------------------------------------------------------
(* Bounds of the model *)

MaxGames == 2
MaxDecoded == 1

(* Program constants *)

MinStates == 2
MaxStates == 5

----------------------------------------------------------------------------
(* Values *)

(* line 68; the first name is written with U+2011 for its hyphen there and *)
(* in the keys of lines 74 and 104 alike                                   *)
friendly_names ==
    <<"Locked-In", "Improving", "Fatigued", "Demoralized", "Overconfident">>

NaN == "NaN"

(* Variant: the last name has no entry *)
descriptionsShort ==
    [l \in {"Locked-In", "Improving", "Fatigued", "Demoralized"} |-> "note"]

descriptions ==
    [l \in {"Locked-In", "Improving", "Fatigued", "Demoralized", "Overconfident"} |->
        CASE l = "Locked-In"     -> "High offense/possession, low penalties. Maintain the plan."
          [] l = "Improving"     -> "Upward trend in performance. Increase tactical intensity."
          [] l = "Fatigued"      -> "Late-game drop-offs. Lighten practice load this week."
          [] l = "Demoralized"   -> "High goals against & penalties. Reinforce fundamentals & morale."
          [] l = "Overconfident" -> "Good scoreline but sloppy fundamentals. Reinforce discipline."]

Perms(n) == {p \in [1..n -> 1..n] : \A i, j \in 1..n : p[i] = p[j] => i = j}

Reverse(s) == [i \in 1..Len(s) |-> s[Len(s) + 1 - i]]

Sum(s) == LET RECURSIVE Acc(_)
              Acc(i) == IF i = 0 THEN 0 ELSE s[i] + Acc(i - 1)
          IN Acc(Len(s))

NoRun == [run |-> FALSE, n_states |-> 0, rows |-> <<>>, df |-> <<>>, X |-> <<>>,
          fitted |-> FALSE, goal_diff |-> <<>>, State |-> <<>>, order |-> <<>>,
          labelOf |-> <<>>, StateLabel |-> <<>>]

----------------------------------------------------------------------------
(* Library operations the script calls, as they act on these values *)

(* DataFrame.sort_values('GameDate'), default kind='quicksort': the rows   *)
(* ascending by date; the relative order of rows with equal dates is not   *)
(* specified.                                                              *)
sort_values(rows) ==
    {[i \in 1..Len(rows) |-> rows[p[i]]] :
        p \in {q \in Perms(Len(rows)) :
                 \A i, j \in 1..Len(rows) :
                    i < j => rows[q[i]].date <= rows[q[j]].date}}

(* StandardScaler().fit_transform on one column: (x - mean) / scale with   *)
(* scale = sqrt(population variance), and scale = 1 where the variance is  *)
(* 0.  An entry [num, den] stands for num / sqrt(den).                     *)
fit_transform(col) ==
    LET n   == Len(col)
        s   == Sum(col)
        q   == Sum([i \in 1..n |-> col[i] * col[i]])
        var == n * q - s * s
    IN [i \in 1..n |-> [num |-> n * col[i] - s,
                        den |-> IF var = 0 THEN n * n ELSE var]]

(* np.argsort(a), default kind='quicksort': the indices 0..K-1 ascending   *)
(* by a; the relative order of equal elements is not specified.  Built by  *)
(* taking, in turn, any index whose element is least among those left.     *)
RECURSIVE Ascending(_, _)
Ascending(a, S) ==
    IF S = {} THEN {<<>>}
    ELSE UNION {{<<m>> \o rest : rest \in Ascending(a, S \ {m})} :
                   m \in {x \in S : \A y \in S : a[x] <= a[y]}}

argsort(a) == Ascending(a, DOMAIN a)

(* The score vectors a fit of K states can produce, up to order type.      *)
Means(K) ==
    {f \in [0..(K - 1) -> 0..(K - 1)] :
        \A v \in 1..(K - 1) :
            (\E s \in 0..(K - 1) : f[s] = v) => (\E s \in 0..(K - 1) : f[s] = v - 1)}

----------------------------------------------------------------------------
(* The statements of the script *)

Fail(stage) ==
    /\ pc' = "failed"
    /\ failedAt' = stage

(* line 49: read_csv(parse_dates=['GameDate']).sort_values('GameDate').    *)
(* A missing GameDate column raises; a GameDate cell that is no date       *)
(* leaves the column as text, which sorts in the same order.               *)
Load ==
    /\ pc = "load"
    /\ IF csv.defect = "no GameDate"
       THEN /\ Fail("load")
            /\ UNCHANGED df
       ELSE /\ df' \in sort_values(csv.rows)
            /\ (prev.run /\ prev.rows = csv.rows) => df' = prev.df
            /\ pc' = "normalize"
            /\ UNCHANGED failedAt
    /\ UNCHANGED <<csv, n_states, X, fitted, goal_diff, State, order,
                   state_label_map, StateLabel, CoachNote, prev>>

(* lines 50-51: df[features] raises on a missing feature column, before    *)
(* the scaler is called; the scaler raises on an empty matrix and on no    *)
(* other matrix of numbers.                                                *)
Normalize ==
    /\ pc = "normalize"
    /\ IF csv.defect = "no feature"
       THEN /\ Fail("select")
            /\ UNCHANGED X
       ELSE IF Len(df) = 0
       THEN /\ Fail("normalize")
            /\ UNCHANGED X
       ELSE /\ X' = fit_transform([i \in 1..Len(df) |-> df[i].gf])
            /\ pc' = "fit"
            /\ UNCHANGED failedAt
    /\ UNCHANGED <<csv, n_states, df, fitted, goal_diff, State, order,
                   state_label_map, StateLabel, CoachNote, prev>>

(* Variant: a fit that accepts any number of samples *)
AnySampleCount(n, k) == FALSE

(* KMeans(n_clusters=n_components).fit inside GaussianHMM.fit *)
TooFewSamples(n, k) == n < k

SameFit == prev.run /\ prev.X = X /\ prev.n_states = n_states

(* lines 54-58: GaussianHMM(n_components=n_states).fit(X).  The k-means    *)
(* initialisation raises when there are fewer samples than components; on  *)
(* longer sequences the fit returns means or raises on a numerical error.  *)
Fit ==
    /\ pc = "fit"
    /\ \/ /\ TooFewSamples(Len(X), n_states) \/ ~SameFit \/ ~prev.fitted
          /\ Fail("fit")
          /\ UNCHANGED <<fitted, goal_diff>>
       \/ /\ ~TooFewSamples(Len(X), n_states)
          /\ SameFit => prev.fitted
          /\ fitted' = TRUE
          /\ goal_diff' \in Means(n_states)
          /\ SameFit => goal_diff' = prev.goal_diff
          /\ pc' = "predict"
          /\ UNCHANGED failedAt
    /\ UNCHANGED <<csv, n_states, df, X, State, order, state_label_map,
                   StateLabel, CoachNote, prev>>

(* line 59: df['State'] = model.predict(X), one state index per row *)
Predict ==
    /\ pc = "predict"
    /\ State' \in [1..Len(X) -> 0..(n_states - 1)]
    /\ SameFit => State' = prev.State
    /\ pc' = "label"
    /\ UNCHANGED <<csv, n_states, failedAt, df, X, fitted, goal_diff, order,
                   state_label_map, StateLabel, CoachNote, prev>>

(* Variant: the [::-1] of line 66 left out *)
OrderAscending(a) == argsort(a)

(* line 66 *)
Order(a) == {Reverse(o) : o \in argsort(a)}

(* Variant: the raw state index used as the rank *)
LabelMapByIndex(o, n) ==
    LET m == IF n < Len(o) THEN n ELSE Len(o)
    IN [old \in {o[i] : i \in 1..m} |-> friendly_names[old + 1]]

(* Variant: order[:n_states - 1] *)
LabelMapShort(o, n) ==
    LET m == IF n - 1 < Len(o) THEN n - 1 ELSE Len(o)
    IN [old \in {o[i] : i \in 1..m} |->
          friendly_names[CHOOSE i \in 1..m : o[i] = old]]

(* line 69: {old: friendly_names[i] for i, old in enumerate(order[:n_states])} *)
LabelMap(o, n) ==
    LET m == IF n < Len(o) THEN n ELSE Len(o)
    IN [old \in {o[i] : i \in 1..m} |->
          friendly_names[CHOOSE i \in 1..m :
                            /\ o[i] = old
                            /\ \A j \in 1..m : o[j] = old => j <= i]]

(* lines 62-70: a state with no entry in the map raises KeyError.  On a    *)
(* score vector it was given before (that of the previous run, or the one  *)
(* order was computed from) argsort gives the order it gave then.          *)
LabelStates ==
    /\ pc = "label"
    /\ order' \in Order(goal_diff)
    /\ (prev.run /\ prev.goal_diff = goal_diff) => order' = prev.order
    /\ order # <<>> => order' = order
    /\ state_label_map' = LabelMap(order', n_states)
    /\ IF \A i \in 1..Len(State) : State[i] \in DOMAIN state_label_map'
       THEN /\ StateLabel' = [i \in 1..Len(State) |-> state_label_map'[State[i]]]
            /\ pc' = "annotate"
            /\ UNCHANGED failedAt
       ELSE /\ Fail("label")
            /\ UNCHANGED StateLabel
    /\ UNCHANGED <<csv, n_states, df, X, fitted, goal_diff, State, CoachNote, prev>>

(* line 80: Series.map(dict) gives NaN for a label that is no key *)
Note(label) ==
    IF label \in DOMAIN descriptions THEN descriptions[label] ELSE NaN

(* lines 73-80 *)
Annotate ==
    /\ pc = "annotate"
    /\ CoachNote' = [i \in 1..Len(StateLabel) |-> Note(StateLabel[i])]
    /\ pc' = "display"
    /\ UNCHANGED <<csv, n_states, failedAt, df, X, fitted, goal_diff, State,
                   order, state_label_map, StateLabel, prev>>

(* lines 83-141: legend, charts, table and report.  descriptions[label]    *)
(* raises for a label that is no key, df[display_cols] for a missing       *)
(* Opponent or Venue column.                                               *)
Display ==
    /\ pc = "display"
    /\ IF \/ \E s \in DOMAIN state_label_map :
                state_label_map[s] \notin DOMAIN descriptions
          \/ csv.defect = "no Opponent"
       THEN Fail("display")
       ELSE /\ pc' = "done"
            /\ UNCHANGED failedAt
    /\ UNCHANGED <<csv, n_states, df, X, fitted, goal_diff, State, order,
                   state_label_map, StateLabel, CoachNote, prev>>

----------------------------------------------------------------------------
(* The session *)

Defects == {"none", "no GameDate", "no feature", "no Opponent", "bad date"}

GoalsSeen == {0, 1}

(* The files of n rows; a row's game is what identifies it (opponent and  *)
(* venue), its date is the rank of its GameDate.                          *)
Files(n) ==
    {[i \in 1..n |-> [game |-> i, date |-> d[i], gf |-> g[i]]] :
        d \in [1..n -> 0..(n - 1)], g \in [1..n -> GoalsSeen]}

Blank ==
    /\ failedAt = "none"
    /\ df = <<>>
    /\ X = <<>>
    /\ fitted = FALSE
    /\ goal_diff = <<>>
    /\ State = <<>>
    /\ order = <<>>
    /\ state_label_map = <<>>
    /\ StateLabel = <<>>
    /\ CoachNote = <<>>

(* A script run starts with a file uploaded (line 44) and the slider set   *)
(* (line 30).                                                              *)
Init ==
    /\ n_states \in MinStates..MaxStates
    /\ \E n \in 0..MaxGames, d \in Defects :
          /\ d = "bad date" => n > 0
          /\ \E r \in Files(n) : csv = [defect |-> d, rows |-> r]
    /\ pc = "load"
    /\ prev = NoRun
    /\ Blank

Next ==
    \/ Load
    \/ Normalize
    \/ Fit
    \/ Predict
    \/ LabelStates
    \/ Annotate
    \/ Display

Spec == Init /\ [][Next]_vars

(* The same games uploaded again in another row order (line 29): the       *)
(* script runs again from the top.                                         *)
Reupload ==
    /\ pc = "done"
    /\ ~prev.run
    /\ \E p \in Perms(Len(csv.rows)) :
          csv' = [csv EXCEPT !.rows = [i \in 1..Len(csv.rows) |-> csv.rows[p[i]]]]
    /\ prev' = [run |-> TRUE, n_states |-> n_states, rows |-> csv.rows, df |-> df,
                X |-> X, fitted |-> fitted, goal_diff |-> goal_diff,
                State |-> State, order |-> order,
                labelOf |-> [g \in {df[i].game : i \in 1..Len(df)} |->
                               StateLabel[CHOOSE i \in 1..Len(df) : df[i].game = g]],
                StateLabel |-> StateLabel]
    /\ pc' = "load"
    /\ failedAt' = "none"
    /\ df' = <<>>
    /\ X' = <<>>
    /\ fitted' = FALSE
    /\ goal_diff' = <<>>
    /\ State' = <<>>
    /\ order' = <<>>
    /\ state_label_map' = <<>>
    /\ StateLabel' = <<>>
    /\ CoachNote' = <<>>
    /\ UNCHANGED n_states

NextSession ==
    \/ Next
    \/ Reupload

SpecSession == Init /\ [][NextSession]_vars

----------------------------------------------------------------------------
(* The label resolver (lines 62-80) on every fitted model and decoding *)

Placeholder(n) == [i \in 1..n |-> [game |-> i, date |-> i - 1, gf |-> 0]]

InitLabel ==
    /\ n_states \in MinStates..MaxStates
    /\ \E n \in 1..MaxDecoded :
          /\ csv = [defect |-> "none", rows |-> Placeholder(n)]
          /\ df = Placeholder(n)
          /\ X = fit_transform([i \in 1..n |-> 0])
          /\ State \in [1..n -> 0..(n_states - 1)]
    /\ fitted = TRUE
    /\ goal_diff \in Means(n_states)
    /\ pc = "label"
    /\ failedAt = "none"
    /\ order = <<>>
    /\ state_label_map = <<>>
    /\ StateLabel = <<>>
    /\ CoachNote = <<>>
    /\ prev = NoRun

NextLabel ==
    \/ LabelStates
    \/ Annotate
    \/ Display

SpecLabel == InitLabel /\ [][NextLabel]_vars

----------------------------------------------------------------------------
(* The label resolver under renumberings of the states.  Line 70 gives     *)
(* each record the label of its own state, so one decoded record, in any   *)
(* state, is followed.                                                     *)

InitRenumber ==
    /\ InitLabel
    /\ Len(State) = 1

(* The same fitted components under another numbering of the states: two  *)
(* state indices s and t are exchanged in the means and in the decoded     *)
(* states together, and lines 62-80 run on the result.  Exchanges repeat,  *)
(* so every renumbering is reached; prev keeps the labels of the first     *)
(* numbering.  np.argsort is a function of its argument: when the exchange *)
(* leaves the score vector as it was, order stays what it was.             *)
Renumber ==
    /\ pc = "display"
    /\ \E s, t \in 0..(n_states - 1) :
          /\ s < t
          /\ goal_diff' = [goal_diff EXCEPT ![s] = goal_diff[t], ![t] = goal_diff[s]]
          /\ State' = [i \in 1..Len(State) |->
                         IF State[i] = s THEN t ELSE IF State[i] = t THEN s ELSE State[i]]
    /\ prev' = IF prev.run THEN prev
               ELSE [NoRun EXCEPT !.run = TRUE, !.StateLabel = StateLabel]
    /\ order' = IF goal_diff' = goal_diff THEN order ELSE <<>>
    /\ pc' = "label"
    /\ state_label_map' = <<>>
    /\ StateLabel' = <<>>
    /\ CoachNote' = <<>>
    /\ UNCHANGED <<csv, n_states, failedAt, df, X, fitted>>

NextRenumber ==
    \/ LabelStates
    \/ Annotate
    \/ Renumber

SpecRenumber == InitRenumber /\ [][NextRenumber]_vars

----------------------------------------------------------------------------
(* Properties *)

Labelled == pc \in {"annotate", "display", "done"}

PastFit == pc \in {"predict", "label", "annotate", "display", "done"}

Unlabelled ==
    /\ State = <<>>
    /\ StateLabel = <<>>
    /\ CoachNote = <<>>

States == 0..(n_states - 1)

NameIndex(l) == CHOOSE i \in 1..Len(friendly_names) : friendly_names[i] = l

Rank(s) == NameIndex(state_label_map[s])

ZeroVariance(col) == \A i, j \in 1..Len(col) : col[i] = col[j]

DistinctScores == \A a, b \in States : goal_diff[a] = goal_diff[b] => a = b

(* C1: once the states are labelled, a state with a greater score has a    *)
(* name of smaller index than a state with a smaller score; a state whose  *)
(* score is above all others is "Locked-In", one whose score is below all  *)
(* others has the K-th name.                                               *)
C1_RankingDescending ==
    Labelled =>
        /\ \A a, b \in States : goal_diff[a] > goal_diff[b] => Rank(a) < Rank(b)
        /\ \A a \in States :
              (\A b \in States \ {a} : goal_diff[a] > goal_diff[b])
                 => state_label_map[a] = friendly_names[1]
        /\ \A a \in States :
              (\A b \in States \ {a} : goal_diff[a] < goal_diff[b])
                 => state_label_map[a] = friendly_names[n_states]

C1_Witness ==
    /\ Labelled
    /\ n_states = MaxStates
    /\ DistinctScores
    /\ \E a \in States : a > 0 /\ state_label_map[a] = friendly_names[1]

(* C2 as stated: after any renumbering of the states, every record has the *)
(* label it had under the first numbering, tied scores included.           *)
C2_LabelsSurviveRenumbering ==
    (Labelled /\ prev.run) => StateLabel = prev.StateLabel

(* C2 amended: when the K scores are pairwise different, every record has, *)
(* after any renumbering of the states, the label it had before.           *)
C2_LabelsSurviveRenumberingDistinct ==
    (Labelled /\ prev.run /\ DistinctScores) => StateLabel = prev.StateLabel

C2_Witness ==
    /\ Labelled
    /\ prev.run
    /\ DistinctScores
    /\ n_states = MaxStates
    /\ \E i \in 1..Len(State) : State[i] # Rank(State[i]) - 1

(* C3: the lookup of line 70 never fails, and the map of a labelled run is *)
(* a bijection from the state indices 0..K-1 onto the first K names.       *)
C3_MapIsBijection ==
    /\ failedAt # "label"
    /\ Labelled =>
          /\ DOMAIN state_label_map = States
          /\ \A a, b \in States : state_label_map[a] = state_label_map[b] => a = b
          /\ {state_label_map[a] : a \in States} = {friendly_names[i] : i \in 1..n_states}
          /\ \A i \in 1..Len(State) : StateLabel[i] = state_label_map[State[i]]

C3_Witness ==
    /\ Labelled
    /\ n_states = MinStates
    /\ {state_label_map[a] : a \in DOMAIN state_label_map} = {"Locked-In", "Improving"}
    /\ Len(StateLabel) > 0

(* C5 as stated: on a well-formed file with fewer rows than K the run ends *)
(* with the fit raising, and no State, StateLabel or CoachNote is set and  *)
(* no output stage is reached.                                             *)
C5_ShortSequenceFailsInFit ==
    (csv.defect = "none" /\ Len(csv.rows) < n_states) =>
        /\ ~PastFit
        /\ Unlabelled
        /\ pc = "failed" => failedAt = "fit"

(* C5 amended: on a file with fewer rows than K no State, StateLabel or    *)
(* CoachNote is ever set and no stage after the fit is reached; when the   *)
(* file has at least one row and all its columns the run ends with the fit *)
(* raising, and when it has no row it ends with the scaler raising.        *)
C5_ShortSequenceNeverLabelled ==
    Len(csv.rows) < n_states =>
        /\ ~PastFit
        /\ ~fitted
        /\ Unlabelled
        /\ (pc = "failed" /\ Len(csv.rows) > 0
              /\ csv.defect \notin {"no GameDate", "no feature"}) => failedAt = "fit"
        /\ (pc = "failed" /\ Len(csv.rows) = 0
              /\ csv.defect \notin {"no GameDate", "no feature"}) => failedAt = "normalize"

C5_Witness ==
    /\ pc = "failed"
    /\ failedAt = "fit"
    /\ csv.defect = "none"
    /\ Len(csv.rows) > 0
    /\ Len(csv.rows) < n_states
    /\ Len(X) = Len(csv.rows)

(* C6: when the feature column of a well-formed, non-empty file has zero   *)
(* variance the scaler raises: no normalized matrix is returned and the    *)
(* fit is not reached.                                                     *)
C6_ZeroVarianceRejected ==
    (/\ csv.defect = "none"
     /\ Len(csv.rows) > 0
     /\ ZeroVariance([i \in 1..Len(csv.rows) |-> csv.rows[i].gf])) =>
        /\ X = <<>>
        /\ pc \in {"load", "normalize", "failed"}
        /\ pc = "failed" => failedAt = "normalize"

(* C7: when the same games are uploaded in another row order, every game   *)
(* of the second run gets the label it got in the first run.               *)
C7_RowOrderInvariant ==
    (prev.run /\ Labelled) =>
        \A i \in 1..Len(df) : StateLabel[i] = prev.labelOf[df[i].game]

(* C8: every one of the first K names, for every K of the slider, has a    *)
(* non-empty coaching note; once the notes are attached every record has a *)
(* non-empty one, and the legend never raises on a label.                  *)
C8_NotesComplete ==
    /\ \A K \in MinStates..MaxStates : \A i \in 1..K :
          Note(friendly_names[i]) \notin {NaN, ""}
    /\ pc \in {"display", "done"} =>
          /\ Len(CoachNote) = Len(df)
          /\ \A i \in 1..Len(CoachNote) : CoachNote[i] \notin {NaN, ""}
    /\ failedAt # "display"

C8_Witness ==
    /\ pc = "done"
    /\ n_states = MaxStates
    /\ \E i \in 1..Len(CoachNote) : StateLabel[i] = friendly_names[MaxStates]

(* C9: a file with a missing required column or with a GameDate that is no *)
(* date is rejected before the pipeline runs: the scaler returns no        *)
(* matrix for it, no model is fitted on it, and no record of it gets a     *)
(* State, StateLabel or CoachNote.                                         *)
C9_MalformedInputRejected ==
    csv.defect # "none" =>
        /\ X = <<>>
        /\ ~fitted
        /\ Unlabelled
        /\ pc \in {"load", "normalize", "failed"}

(* C10: of two states with equal scores the one with the smaller index     *)
(* gets the earlier name.                                                  *)
C10_TiesByIndexAscending ==
    Labelled =>
        \A a, b \in States :
            (a < b /\ goal_diff[a] = goal_diff[b]) => Rank(a) < Rank(b)

====
